---- MODULE Spec2Model ----
(***************************************************************************)
(* Model of src/src/base.rs (r-efi, UEFI base environment).                *)
(*                                                                         *)
(* The crate is compiled for one target configuration (target_arch,       *)
(* target_endian).  Compilation evaluates the cfg-gated compile_error!     *)
(* items, selects the eficall_arch! definition and expands eficall!.  A    *)
(* successful build yields a program in which Guid values are constructed  *)
(* with Guid::from_native / Guid::from_spec and viewed with               *)
(* Guid::as_bytes.                                                         *)
(*                                                                         *)
(* Integers are unsigned values of a fixed byte width; memory is a         *)
(* sequence of bytes whose order for a multi-byte integer is given by the  *)
(* host endianness.                                                        *)
(***************************************************************************)
EXTENDS Integers, Sequences, FiniteSets, TLC

VARIABLES
    target_arch,    \* cfg(target_arch) of the build
    target_endian,  \* cfg(target_endian) of the build
    status,         \* "unbuilt" | "ok" | "error": outcome of the compilation
    diagnostics,    \* compile_error! messages emitted by the compilation
    sig,            \* the function declaration handed to eficall!
    decl,           \* the declaration eficall! expanded to
    entry_point,    \* the ImageEntryPoint type of the compiled crate
    ctor,           \* "none" | "from_native" | "from_spec": last constructor called
    args,           \* the arguments of that call
    guid,           \* the Guid it returned (field values as the host reads them)
    bytes,          \* the array as_bytes returned for guid, <<>> before the call
    boolean         \* the Boolean the program last stored, and its memory

vars == <<target_arch, target_endian, status, diagnostics, sig, decl,
          entry_point, ctor, args, guid, bytes, boolean>>

-----------------------------------------------------------------------------
(* Target configurations *)

SupportedArchs == {"arm", "aarch64", "x86", "x86_64"}

\* the four architectures the source names and two it does not
Archs == SupportedArchs \cup {"riscv64", "powerpc64"}

Endians == {"little", "big"}

-----------------------------------------------------------------------------
(* Fixed-width unsigned integers and their bytes *)

Byte == 0..255

\* byte i of v, counted from the least significant byte (i = 0)
ByteOf(v, i) == (v \div (256 ^ i)) % 256

Reverse(s) == [i \in 1..Len(s) |-> s[Len(s) + 1 - i]]

\* uN::to_le_bytes: least significant byte first
to_le_bytes(v, size) == [i \in 1..size |-> ByteOf(v, i - 1)]

RECURSIVE from_le_bytes(_)
\* uN::from_le_bytes
from_le_bytes(s) ==
    IF s = <<>> THEN 0 ELSE s[1] + 256 * from_le_bytes(Tail(s))

\* uN::to_ne_bytes: the bytes of v as the host lays them out in memory
to_ne_bytes(v, size, endian) ==
    IF endian = "little" THEN to_le_bytes(v, size)
                         ELSE Reverse(to_le_bytes(v, size))

\* uN::from_ne_bytes: the value the host reads from these bytes of memory
from_ne_bytes(s, endian) ==
    IF endian = "little" THEN from_le_bytes(s)
                         ELSE from_le_bytes(Reverse(s))

\* uN::swap_bytes: reverses the byte order of the integer
swap_bytes(v, size) == from_le_bytes(Reverse(to_le_bytes(v, size)))

\* mutation: the conversion to big endian is forgotten
to_be_identity(v, size, endian) == v

\* mutation: the conversion swaps on every host
to_be_always_swap(v, size, endian) == swap_bytes(v, size)

\* uN::to_be: identity on a big-endian host, swap_bytes on a little-endian one
to_be(v, size, endian) ==
    IF endian = "big" THEN v ELSE swap_bytes(v, size)

-----------------------------------------------------------------------------
(* The Guid structure and its memory layout: #[repr(C, align(8))] *)

\* mutation: clk_seq_hi_res declared before the wider fields
GuidFieldsReordered ==
    << [name |-> "clk_seq_hi_res",      size |-> 1, count |-> 1, align |-> 1],
       [name |-> "time_low",            size |-> 4, count |-> 1, align |-> 4],
       [name |-> "time_mid",            size |-> 2, count |-> 1, align |-> 2],
       [name |-> "time_hi_and_version", size |-> 2, count |-> 1, align |-> 2],
       [name |-> "clk_seq_low",         size |-> 1, count |-> 1, align |-> 1],
       [name |-> "node",                size |-> 1, count |-> 6, align |-> 1] >>

\* the fields in declaration order: u32, u16, u16, u8, u8, [u8; 6]
GuidFields ==
    << [name |-> "time_low",            size |-> 4, count |-> 1, align |-> 4],
       [name |-> "time_mid",            size |-> 2, count |-> 1, align |-> 2],
       [name |-> "time_hi_and_version", size |-> 2, count |-> 1, align |-> 2],
       [name |-> "clk_seq_hi_res",      size |-> 1, count |-> 1, align |-> 1],
       [name |-> "clk_seq_low",         size |-> 1, count |-> 1, align |-> 1],
       [name |-> "node",                size |-> 1, count |-> 6, align |-> 1] >>

\* the align(8) attribute of the structure
GuidAlignAttr == 8

RoundUp(n, a) == ((n + a - 1) \div a) * a

Max(S) == CHOOSE m \in S : \A x \in S : x <= m

RECURSIVE OffsetOf(_)
\* repr(C): field k starts at the end of field k-1 rounded up to its alignment
OffsetOf(k) ==
    IF k = 1 THEN 0
    ELSE RoundUp(OffsetOf(k - 1) + GuidFields[k - 1].size * GuidFields[k - 1].count,
                 GuidFields[k].align)

EndOf(k) == OffsetOf(k) + GuidFields[k].size * GuidFields[k].count

\* core::mem::align_of::<Guid>()
AlignOf == Max({GuidAlignAttr} \cup {GuidFields[k].align : k \in DOMAIN GuidFields})

\* core::mem::size_of::<Guid>(): the end of the last field rounded up to the alignment
SizeOf == RoundUp(EndOf(Len(GuidFields)), AlignOf)

\* the field that occupies byte offset o (0 when o is padding)
FieldAt(o) ==
    IF \E k \in DOMAIN GuidFields : OffsetOf(k) <= o /\ o < EndOf(k)
    THEN CHOOSE k \in DOMAIN GuidFields : OffsetOf(k) <= o /\ o < EndOf(k)
    ELSE 0

\* the byte offsets of the structure that belong to no field
Padding == {o \in 0..(SizeOf - 1) : FieldAt(o) = 0}

\* the values a padding byte, which is never written, may be read as
UninitBytes == {0, 170, 255}

\* the bytes of field k of g in host memory
FieldBytes(g, k, endian) ==
    IF GuidFields[k].count = 1
    THEN to_ne_bytes(g[GuidFields[k].name], GuidFields[k].size, endian)
    ELSE g[GuidFields[k].name]

\* mutation: the view reverses the bytes of every field before exposing it
as_bytes_converting(g, endian, fill) ==
    [i \in 1..SizeOf |->
        IF FieldAt(i - 1) = 0 THEN fill[i - 1]
        ELSE Reverse(FieldBytes(g, FieldAt(i - 1), endian))
                 [i - OffsetOf(FieldAt(i - 1))]]

\* Guid::as_bytes: transmute::<&Guid, &[u8; 16]>, the memory of g as it stands;
\* fill gives what the read of each padding byte produces
as_bytes(g, endian, fill) ==
    [i \in 1..SizeOf |->
        IF FieldAt(i - 1) = 0 THEN fill[i - 1]
        ELSE FieldBytes(g, FieldAt(i - 1), endian)[i - OffsetOf(FieldAt(i - 1))]]

\* the Guid whose memory is the byte array b: each field read at its offset
GuidAt(b, endian) ==
    [n \in {GuidFields[k].name : k \in DOMAIN GuidFields} |->
        LET k == CHOOSE j \in DOMAIN GuidFields : GuidFields[j].name = n
            s == SubSeq(b, OffsetOf(k) + 1, EndOf(k))
        IN IF GuidFields[k].count = 1 THEN from_ne_bytes(s, endian) ELSE s]

\* Guid::from_native
from_native(time_low, time_mid, time_hi_and_version, clk_seq_hi_res, clk_seq_low, node, endian) ==
    [ time_low            |-> to_be(time_low, 4, endian),
      time_mid            |-> to_be(time_mid, 2, endian),
      time_hi_and_version |-> to_be(time_hi_and_version, 2, endian),
      clk_seq_hi_res      |-> to_be(clk_seq_hi_res, 1, endian),
      clk_seq_low         |-> to_be(clk_seq_low, 1, endian),
      node                |-> node ]

\* mutation: the literals are passed on without undoing their byte order
from_spec_unswapped(time_low, time_mid, time_hi_and_version, clk_seq_hi_res, clk_seq_low, node, endian) ==
    from_native(time_low, time_mid, time_hi_and_version,
                clk_seq_hi_res, clk_seq_low, node, endian)

\* Guid::from_spec
from_spec(time_low, time_mid, time_hi_and_version, clk_seq_hi_res, clk_seq_low, node, endian) ==
    from_native(swap_bytes(time_low, 4),
                swap_bytes(time_mid, 2),
                swap_bytes(time_hi_and_version, 2),
                swap_bytes(clk_seq_hi_res, 1),
                swap_bytes(clk_seq_low, 1),
                node, endian)

-----------------------------------------------------------------------------
(* The Boolean enumeration: #[repr(u8)] *)

\* the representation the repr attribute names: u8, one byte
BooleanRepr == [name |-> "u8", size |-> 1]

\* mutation: True declared with all bits set
BooleanVariantsAllOnes ==
    << [name |-> "False", discriminant |-> 0],
       [name |-> "True",  discriminant |-> 255] >>

\* the variants with their explicit discriminants: False = 0u8, True = 1u8
BooleanVariants ==
    << [name |-> "False", discriminant |-> 0],
       [name |-> "True",  discriminant |-> 1] >>

\* the values of the type: one per variant
BooleanValues == {BooleanVariants[k].name : k \in DOMAIN BooleanVariants}

\* the memory of a Boolean: its discriminant in the representation type
BooleanBytes(v, endian) ==
    LET k == CHOOSE j \in DOMAIN BooleanVariants : BooleanVariants[j].name = v
    IN to_ne_bytes(BooleanVariants[k].discriminant, BooleanRepr.size, endian)

NoBoolean == [value |-> "none", mem |-> <<>>]

-----------------------------------------------------------------------------
(* Compilation: the target check, eficall_arch! and eficall! *)

ArchError == "The target architecture is not supported."

EndianError == "The target endianness is not supported."

\* mutation: only the architecture is checked
TargetCheckArchOnly(arch, endian) ==
    IF arch \notin {"arm", "aarch64", "x86", "x86_64"} THEN {ArchError} ELSE {}

\* the two cfg-gated compile_error! items: the messages the target produces
TargetCheck(arch, endian) ==
    (IF arch \notin {"arm", "aarch64", "x86", "x86_64"} THEN {ArchError} ELSE {})
    \cup (IF endian # "little" THEN {EndianError} ELSE {})

\* mutation: the 64-bit x86 definition names the System V convention
EficallArchDefsSysv ==
    << [archs |-> {"arm"},     negated |-> FALSE, abi |-> "aapcs"],
       [archs |-> {"aarch64"}, negated |-> FALSE, abi |-> "C"],
       [archs |-> {"x86"},     negated |-> FALSE, abi |-> "cdecl"],
       [archs |-> {"x86_64"},  negated |-> FALSE, abi |-> "sysv64"],
       [archs |-> {"arm", "aarch64", "x86", "x86_64"},
                               negated |-> TRUE,  abi |-> "C"] >>

\* the five cfg-gated definitions of eficall_arch!, in source order: the cfg
\* holds when target_arch is in archs (is not, when negated)
EficallArchDefs ==
    << [archs |-> {"arm"},     negated |-> FALSE, abi |-> "aapcs"],
       [archs |-> {"aarch64"}, negated |-> FALSE, abi |-> "C"],
       [archs |-> {"x86"},     negated |-> FALSE, abi |-> "cdecl"],
       [archs |-> {"x86_64"},  negated |-> FALSE, abi |-> "win64"],
       [archs |-> {"arm", "aarch64", "x86", "x86_64"},
                               negated |-> TRUE,  abi |-> "C"] >>

\* the definitions of eficall_arch! whose cfg holds for the target
Selected(arch) ==
    {i \in DOMAIN EficallArchDefs :
        (arch \in EficallArchDefs[i].archs) # EficallArchDefs[i].negated}

\* eficall_arch!(fn $in $(-> $out)?): extern "<abi>" fn $in $(-> $out)?, by the
\* definition in scope (of several, the textually last); none: no such macro
eficall_arch(arch, s) ==
    IF Selected(arch) = {}
    THEN [abi |-> "undefined macro", in |-> <<>>, out |-> "none"]
    ELSE [abi |-> EficallArchDefs[Max(Selected(arch))].abi, in |-> s.in, out |-> s.out]

\* eficall!($($arg)*): hands its tokens to eficall_arch!
eficall(arch, s) == eficall_arch(arch, s)

\* pub type ImageEntryPoint = fn(Handle, *mut SystemTable) -> Status;
\* a fn type without an extern qualifier has the "Rust" ABI
ImageEntryPoint ==
    [abi |-> "Rust", in |-> <<"Handle", "*mut SystemTable">>, out |-> "Status"]

-----------------------------------------------------------------------------
(* Inputs *)

\* function declarations handed to eficall!: argument list and optional return type
Sigs ==
    { [in |-> <<"Handle", "*mut SystemTable">>, out |-> "Status"],
      [in |-> <<>>,                             out |-> "none"] }

NoDecl == [abi |-> "none", in |-> <<>>, out |-> "none"]

\* the literals of the two concrete scenarios
Scenario ==
    [ time_low |-> \H01020304, time_mid |-> \H0506, time_hi_and_version |-> \H0708,
      clk_seq_hi_res |-> \H09, clk_seq_low |-> \H0A,
      node |-> <<\H0B, \H0C, \H0D, \H0E, \H0F, \H10>> ]

TimeLowInputs == {Scenario.time_low, \H12345678, \H7F00FF00}

TimeMidInputs == {Scenario.time_mid, \HFFFE}

TimeHiInputs == {Scenario.time_hi_and_version, \H8000}

ClkSeqHiInputs == {Scenario.clk_seq_hi_res, \HFF}

ClkSeqLowInputs == {Scenario.clk_seq_low, \H80}

NodeInputs == {Scenario.node, <<\HFF, 0, \H80, 1, \H7F, \HFE>>}

ZeroArgs ==
    [ time_low |-> 0, time_mid |-> 0, time_hi_and_version |-> 0,
      clk_seq_hi_res |-> 0, clk_seq_low |-> 0, node |-> <<0, 0, 0, 0, 0, 0>> ]

-----------------------------------------------------------------------------
(* The state machine *)

Init ==
    /\ target_arch \in Archs
    /\ target_endian \in Endians
    /\ status = "unbuilt"
    /\ diagnostics = {}
    /\ sig = NoDecl
    /\ decl = NoDecl
    /\ entry_point = NoDecl
    /\ ctor = "none"
    /\ args = ZeroArgs
    /\ guid = ZeroArgs
    /\ bytes = <<>>
    /\ boolean = NoBoolean

\* the crate is compiled for the target: the cfg-gated items are evaluated, a use
\* of eficall! on declaration s is expanded, and the build fails when a
\* compile_error! was emitted
Compile(s) ==
    /\ status = "unbuilt"
    /\ diagnostics' = TargetCheck(target_arch, target_endian)
    /\ status' = IF diagnostics' = {} THEN "ok" ELSE "error"
    /\ sig' = [abi |-> "none", in |-> s.in, out |-> s.out]
    /\ decl' = eficall(target_arch, s)
    /\ entry_point' = ImageEntryPoint
    /\ UNCHANGED <<target_arch, target_endian, ctor, args, guid, bytes, boolean>>

\* the built program calls Guid::from_native
FromNative(a) ==
    /\ status = "ok"
    /\ ctor' = "from_native"
    /\ args' = a
    /\ guid' = from_native(a.time_low, a.time_mid, a.time_hi_and_version,
                           a.clk_seq_hi_res, a.clk_seq_low, a.node, target_endian)
    /\ bytes' = <<>>
    /\ UNCHANGED <<target_arch, target_endian, status, diagnostics, sig, decl,
                   entry_point, boolean>>

\* the built program calls Guid::from_spec
FromSpec(a) ==
    /\ status = "ok"
    /\ ctor' = "from_spec"
    /\ args' = a
    /\ guid' = from_spec(a.time_low, a.time_mid, a.time_hi_and_version,
                         a.clk_seq_hi_res, a.clk_seq_low, a.node, target_endian)
    /\ bytes' = <<>>
    /\ UNCHANGED <<target_arch, target_endian, status, diagnostics, sig, decl,
                   entry_point, boolean>>

\* the built program calls as_bytes on the Guid it constructed
AsBytes ==
    /\ status = "ok"
    /\ ctor # "none"
    /\ \E fill \in [Padding -> UninitBytes] :
           bytes' = as_bytes(guid, target_endian, fill)
    /\ UNCHANGED <<target_arch, target_endian, status, diagnostics, sig, decl,
                   entry_point, ctor, args, guid, boolean>>

\* the built program stores a value of type Boolean
StoreBoolean(v) ==
    /\ status = "ok"
    /\ boolean' = [value |-> v, mem |-> BooleanBytes(v, target_endian)]
    /\ UNCHANGED <<target_arch, target_endian, status, diagnostics, sig, decl,
                   entry_point, ctor, args, guid, bytes>>

ArgSets ==
    [ time_low : TimeLowInputs, time_mid : TimeMidInputs,
      time_hi_and_version : TimeHiInputs, clk_seq_hi_res : ClkSeqHiInputs,
      clk_seq_low : ClkSeqLowInputs, node : NodeInputs ]

Next ==
    \/ \E s \in Sigs : Compile(s)
    \/ \E a \in ArgSets : FromNative(a)
    \/ \E a \in ArgSets : FromSpec(a)
    \/ AsBytes
    \/ \E v \in BooleanValues : StoreBoolean(v)

Spec == Init /\ [][Next]_vars

-----------------------------------------------------------------------------
(* Properties *)

Viewed(c) == ctor = c /\ bytes # <<>>

\* C1: from_native followed by as_bytes yields 16 bytes: time_low, time_mid and
\* time_hi_and_version most significant byte first, then clk_seq_hi_res,
\* clk_seq_low and node unchanged.
C1_FromNativeIsBigEndian ==
    Viewed("from_native") =>
        /\ Len(bytes) = 16
        /\ SubSeq(bytes, 1, 4) = <<ByteOf(args.time_low, 3), ByteOf(args.time_low, 2),
                                   ByteOf(args.time_low, 1), ByteOf(args.time_low, 0)>>
        /\ SubSeq(bytes, 5, 6) = <<ByteOf(args.time_mid, 1), ByteOf(args.time_mid, 0)>>
        /\ SubSeq(bytes, 7, 8) = <<ByteOf(args.time_hi_and_version, 1),
                                   ByteOf(args.time_hi_and_version, 0)>>
        /\ bytes[9] = args.clk_seq_hi_res
        /\ bytes[10] = args.clk_seq_low
        /\ SubSeq(bytes, 11, 16) = args.node

C1_Witness ==
    /\ Viewed("from_native")
    /\ args.time_low = \H12345678
    /\ args.time_mid = \HFFFE
    /\ args.node # Scenario.node

\* the fields of f with the three multi-byte scalars byte-reversed
ByteReversed(f) ==
    [f EXCEPT
        !.time_low = ByteOf(f.time_low, 0) * 16777216 + ByteOf(f.time_low, 1) * 65536
                     + ByteOf(f.time_low, 2) * 256 + ByteOf(f.time_low, 3),
        !.time_mid = ByteOf(f.time_mid, 0) * 256 + ByteOf(f.time_mid, 1),
        !.time_hi_and_version = ByteOf(f.time_hi_and_version, 0) * 256
                                + ByteOf(f.time_hi_and_version, 1)]

FromNativeOf(f, endian) ==
    from_native(f.time_low, f.time_mid, f.time_hi_and_version,
                f.clk_seq_hi_res, f.clk_seq_low, f.node, endian)

FromSpecOf(f, endian) ==
    from_spec(f.time_low, f.time_mid, f.time_hi_and_version,
              f.clk_seq_hi_res, f.clk_seq_low, f.node, endian)

\* C2: from_spec(f) stores the same 16 bytes as from_native applied to f with
\* time_low, time_mid and time_hi_and_version byte-reversed and the single-byte
\* fields and node unchanged.
C2_FromSpecIsFromNativeOfReversed ==
    Viewed("from_spec") =>
        /\ guid = FromNativeOf(ByteReversed(args), target_endian)
        /\ \E fill \in [Padding -> UninitBytes] :
               bytes = as_bytes(FromNativeOf(ByteReversed(args), target_endian),
                                target_endian, fill)

C2_Witness ==
    /\ Viewed("from_spec")
    /\ args.time_low = \H12345678
    /\ args.time_hi_and_version = \H8000
    /\ args.clk_seq_hi_res = \HFF

\* C3 as stated: from_native with the scenario literals yields the raw bytes
\* 04 03 02 01 06 05 08 07 09 0A 0B 0C 0D 0E 0F 10.
C3_Original ==
    (Viewed("from_native") /\ args = Scenario) =>
        bytes = <<\H04, \H03, \H02, \H01, \H06, \H05, \H08, \H07,
                  \H09, \H0A, \H0B, \H0C, \H0D, \H0E, \H0F, \H10>>

\* C3 amended: from_native with the scenario literals yields the raw bytes
\* 01 02 03 04 05 06 07 08 09 0A 0B 0C 0D 0E 0F 10.
C3_FromNativeScenario ==
    (Viewed("from_native") /\ args = Scenario) =>
        bytes = <<\H01, \H02, \H03, \H04, \H05, \H06, \H07, \H08,
                  \H09, \H0A, \H0B, \H0C, \H0D, \H0E, \H0F, \H10>>

C3_Witness == Viewed("from_native") /\ args = Scenario /\ Len(bytes) = 16

\* C4 as stated: from_spec with the scenario literals yields the raw bytes
\* 01 02 03 04 05 06 07 08 09 0A 0B 0C 0D 0E 0F 10.
C4_Original ==
    (Viewed("from_spec") /\ args = Scenario) =>
        bytes = <<\H01, \H02, \H03, \H04, \H05, \H06, \H07, \H08,
                  \H09, \H0A, \H0B, \H0C, \H0D, \H0E, \H0F, \H10>>

\* C4 amended: from_spec with the scenario literals yields the raw bytes
\* 04 03 02 01 06 05 08 07 09 0A 0B 0C 0D 0E 0F 10: each multi-byte field
\* appears with its literal's bytes reversed, least significant byte first.
C4_FromSpecScenario ==
    (Viewed("from_spec") /\ args = Scenario) =>
        bytes = <<\H04, \H03, \H02, \H01, \H06, \H05, \H08, \H07,
                  \H09, \H0A, \H0B, \H0C, \H0D, \H0E, \H0F, \H10>>

C4_Witness == Viewed("from_spec") /\ args = Scenario /\ Len(bytes) = 16

\* C5: for both constructors and all inputs, the bytes as_bytes returns are the
\* bytes the same call sequence produces on a little-endian host and on a
\* big-endian host.
C5_HostEndianIndependent ==
    /\ Viewed("from_native") =>
           \A e \in Endians : \E fill \in [Padding -> UninitBytes] :
               as_bytes(FromNativeOf(args, e), e, fill) = bytes
    /\ Viewed("from_spec") =>
           \A e \in Endians : \E fill \in [Padding -> UninitBytes] :
               as_bytes(FromSpecOf(args, e), e, fill) = bytes

C5_Witness ==
    /\ Viewed("from_spec")
    /\ args.time_low = \H7F00FF00
    /\ FromSpecOf(args, "big") # FromSpecOf(args, "little")

\* the convention the table gives for each target architecture
TableAbi(arch) ==
    CASE arch = "arm"     -> "aapcs"
      [] arch = "aarch64" -> "C"
      [] arch = "x86"     -> "cdecl"
      [] arch = "x86_64"  -> "win64"
      [] OTHER            -> "C"

\* C6: for every target architecture exactly one eficall_arch definition is
\* selected and eficall! annotates the declaration with the table's convention
\* (arm: aapcs, aarch64: C, x86: cdecl, x86_64: win64 and not sysv64, any other:
\* C), passing argument list and return type through unchanged.
C6_EficallSelectsTableConvention ==
    /\ \A a \in Archs : Cardinality(Selected(a)) = 1
    /\ status # "unbuilt" =>
           /\ decl.abi = TableAbi(target_arch)
           /\ decl.abi # "sysv64"
           /\ decl.in = sig.in
           /\ decl.out = sig.out

C6_Witness ==
    /\ status # "unbuilt"
    /\ target_arch = "x86_64"
    /\ decl = [abi |-> "win64", in |-> <<"Handle", "*mut SystemTable">>,
               out |-> "Status"]

\* C7: a build is rejected with a compile-time error exactly when its target
\* architecture is outside {arm, aarch64, x86, x86_64} or its endianness is not
\* little; supported little-endian targets build without error, and no
\* unsupported target yields a program without a diagnostic.
C7_RejectedIffUnsupported ==
    status # "unbuilt" =>
        /\ status = "error" <=>
               (target_arch \notin SupportedArchs \/ target_endian # "little")
        /\ status = "error" => diagnostics # {} /\ ctor = "none" /\ bytes = <<>>
        /\ status = "ok" => diagnostics = {}
        /\ target_arch \notin SupportedArchs => ArchError \in diagnostics
        /\ target_endian # "little" => EndianError \in diagnostics

C7_Witness ==
    /\ status = "error"
    /\ target_arch \in SupportedArchs
    /\ target_endian = "big"
    /\ diagnostics = {EndianError}

\* C8: ImageEntryPoint takes exactly two arguments (a Handle and a pointer to the
\* system table), returns a Status, and on every supported target carries the
\* calling convention eficall! selects for that architecture.
C8_EntryPointConvention ==
    status = "ok" =>
        /\ Len(entry_point.in) = 2
        /\ entry_point.in = <<"Handle", "*mut SystemTable">>
        /\ entry_point.out = "Status"
        /\ entry_point.abi = eficall(target_arch, entry_point).abi

\* the offsets [first, last] a field occupies in the structure
Extent(name) ==
    LET k == CHOOSE j \in DOMAIN GuidFields : GuidFields[j].name = name
    IN <<OffsetOf(k), EndOf(k) - 1>>

\* C9: Guid occupies exactly 16 bytes without padding, its fields at offsets
\* time_low 0..3, time_mid 4..5, time_hi_and_version 6..7, clk_seq_hi_res 8,
\* clk_seq_low 9, node 10..15, its alignment a multiple of 8; the 16 bytes of
\* as_bytes are exactly the bytes of the six fields.
C9_GuidLayout ==
    /\ SizeOf = 16
    /\ Padding = {}
    /\ AlignOf % 8 = 0
    /\ Extent("time_low") = <<0, 3>>
    /\ Extent("time_mid") = <<4, 5>>
    /\ Extent("time_hi_and_version") = <<6, 7>>
    /\ Extent("clk_seq_hi_res") = <<8, 8>>
    /\ Extent("clk_seq_low") = <<9, 9>>
    /\ Extent("node") = <<10, 15>>
    /\ bytes # <<>> =>
           /\ Len(bytes) = 16
           /\ \A i \in 1..16 : bytes[i] \in Byte
           /\ bytes = to_ne_bytes(guid.time_low, 4, target_endian)
                      \o to_ne_bytes(guid.time_mid, 2, target_endian)
                      \o to_ne_bytes(guid.time_hi_and_version, 2, target_endian)
                      \o <<guid.clk_seq_hi_res, guid.clk_seq_low>>
                      \o guid.node

C9_Witness ==
    /\ bytes # <<>>
    /\ guid.time_low = \H78563412
    /\ guid.node # Scenario.node

\* C10: for every Guid built by either constructor, reading the 16 bytes of
\* as_bytes back into the field layout gives the Guid itself and viewing that
\* again gives the same 16 bytes; a call of as_bytes leaves the Guid unchanged.
C10_ViewRoundTrip ==
    /\ [](bytes # <<>> =>
            /\ GuidAt(bytes, target_endian) = guid
            /\ \E fill \in [Padding -> UninitBytes] :
                   as_bytes(GuidAt(bytes, target_endian), target_endian, fill) = bytes)
    /\ [][bytes' # <<>> => guid' = guid]_vars

C10_Witness ==
    /\ Viewed("from_spec")
    /\ guid.time_low = \H12345678
    /\ guid.time_mid # swap_bytes(guid.time_mid, 2)

\* C12: on a little-endian host from_spec stores every field as if the literal
\* had been assigned to it: time_low, time_mid, time_hi_and_version,
\* clk_seq_hi_res, clk_seq_low and node of the Guid, read as host values, equal
\* the arguments.
C12_FromSpecAssignsLiterals ==
    (ctor = "from_spec" /\ target_endian = "little") =>
        /\ guid.time_low = args.time_low
        /\ guid.time_mid = args.time_mid
        /\ guid.time_hi_and_version = args.time_hi_and_version
        /\ guid.clk_seq_hi_res = args.clk_seq_hi_res
        /\ guid.clk_seq_low = args.clk_seq_low
        /\ guid.node = args.node

C12_Witness ==
    /\ ctor = "from_spec"
    /\ target_endian = "little"
    /\ guid.time_low = \H7F00FF00
    /\ guid.time_mid = \HFFFE
    /\ guid.node # Scenario.node

\* C11: Boolean is stored in exactly one byte and has exactly two values, False
\* stored as 0 and True stored as 1; no value of the type is stored as any
\* other byte.
C11_BooleanIsOneByteZeroOrOne ==
    /\ BooleanValues = {"False", "True"}
    /\ \A v \in BooleanValues : \A e \in Endians :
           /\ Len(BooleanBytes(v, e)) = 1
           /\ BooleanBytes(v, e)[1] \in {0, 1}
    /\ boolean # NoBoolean =>
           /\ boolean.value \in {"False", "True"}
           /\ Len(boolean.mem) = 1
           /\ boolean.value = "False" => boolean.mem = <<0>>
           /\ boolean.value = "True" => boolean.mem = <<1>>

C11_Witness == boolean = [value |-> "True", mem |-> <<1>>]

=============================================================================
